---- MODULE Spec2Model ----
(***************************************************************************)
(* Model of src/src/utils/dataforseo_client.py: the DataForSEOClient, its  *)
(* scoped acquisition (__aenter__ / __aexit__), the asyncio.Semaphore gate *)
(* of _make_request and the four query methods with their validation,      *)
(* payload construction and response parsing.                              *)
(*                                                                         *)
(* JSON / Python values: a value that may be None (JSON null) is encoded   *)
(* as a sequence of length at most one: JNull is None, J(v) is the value   *)
(* v.  A dict is a function whose DOMAIN is the set of keys present.       *)
(***************************************************************************)
EXTENDS Integers, Sequences, FiniteSets, TLC

(***************************************************************************)
(* Bounds of the model.                                                    *)
(***************************************************************************)
MaxCalls == 2
MaxRateLimit == 2
MaxAcquisitions == 2
MaxExtraExits == 1
MaxTasks == 2
MaxItems == 2

(***************************************************************************)
(* Program constants.                                                      *)
(***************************************************************************)
SUCCESS == 20000
MAX_KEYWORDS == 1000

Calls == 1..MaxCalls

(***************************************************************************)
(* Python / JSON value helpers.                                            *)
(***************************************************************************)
JNull == <<>>
J(v) == <<v>>
Val(x) == x[1]
EmptyDict == [k \in {} |-> k]

\* dict.get(key, default)
Get(d, k, default) == IF k \in DOMAIN d THEN d[k] ELSE default

\* truthiness of an Optional[str], an Optional[int]
TruthyStr(x) == x # JNull /\ Val(x) # ""
TruthyInt(x) == x # JNull /\ Val(x) # 0

SeqUpTo(S, n) == UNION {[1..k -> S] : k \in 0..n}

(***************************************************************************)
(* Errors.  cls is the Python exception class, msg its message.            *)
(***************************************************************************)
Err(cls, msg) == [cls |-> cls, msg |-> msg]
NoError == Err("none", "")

\* str(x) of an Optional[int] inside an f-string
PyStr(x) == IF x = JNull THEN "None" ELSE ToString(Val(x))

NotInitializedError == Err("DataForSEOError", "Client not initialized. Use async context manager.")
ApiError(code, message) == Err("DataForSEOError", "API error " \o PyStr(code) \o ": " \o message)
RequestFailedError(cause) == Err("DataForSEOError", "Request failed: " \o cause)
SessionClosedError == Err("RuntimeError", "Session is closed")

\* the error kinds of the specification, as the code raises them
IsInvalidArgument(e) == e.cls = "ValueError"
IsClientNotInitialized(e) == e = NotInitializedError
HasPrefix(s, p) == Len(s) >= Len(p) /\ SubSeq(s, 1, Len(p)) = p
IsProviderError(e) == e.cls = "DataForSEOError" /\ HasPrefix(e.msg, "API error ")
IsRequestFailed(e) == e.cls = "DataForSEOError" /\ HasPrefix(e.msg, "Request failed: ")

(***************************************************************************)
(* The query methods.  An argument record carries every parameter of the   *)
(* four methods; a method reads only its own.                              *)
(***************************************************************************)
Ops == {"get_locations_and_languages", "get_search_volume",
        "get_global_search_volume", "get_search_volume_by_location"}
ListOps == Ops \ {"get_locations_and_languages"}

Args(kws, locn, locc, langn, langc, clk, tag) ==
    [keywords |-> kws, location_name |-> locn, location_code |-> locc,
     language_name |-> langn, language_code |-> langc,
     use_clickstream |-> clk, tag |-> tag]
NoArgs == Args(<<>>, JNull, JNull, JNull, JNull, TRUE, JNull)

\* a validation that forgets the limit of 1000 keywords
ValidateSearchVolumeNoLimit(a) ==
    IF Len(a.keywords) = 0
    THEN Err("ValueError", "Keywords list cannot be empty")
    ELSE IF ~(TruthyStr(a.location_name) \/ TruthyInt(a.location_code))
    THEN Err("ValueError", "Either location_name or location_code is required")
    ELSE IF ~(TruthyStr(a.language_name) \/ TruthyStr(a.language_code))
    THEN Err("ValueError", "Either language_name or language_code is required")
    ELSE NoError

\* get_search_volume, lines 185-195
ValidateSearchVolume(a) ==
    IF Len(a.keywords) = 0
    THEN Err("ValueError", "Keywords list cannot be empty")
    ELSE IF Len(a.keywords) > MAX_KEYWORDS
    THEN Err("ValueError", "Maximum 1000 keywords allowed per request")
    ELSE IF ~(TruthyStr(a.location_name) \/ TruthyInt(a.location_code))
    THEN Err("ValueError", "Either location_name or location_code is required")
    ELSE IF ~(TruthyStr(a.language_name) \/ TruthyStr(a.language_code))
    THEN Err("ValueError", "Either language_name or language_code is required")
    ELSE NoError

\* a validation that looks at the length of the first keyword only
ValidateGlobalFirstOnly(a) ==
    IF Len(a.keywords) = 0
    THEN Err("ValueError", "Keywords list cannot be empty")
    ELSE IF Len(a.keywords) > MAX_KEYWORDS
    THEN Err("ValueError", "Maximum 1000 keywords allowed per request")
    ELSE IF Len(a.keywords[1]) < 3
    THEN Err("ValueError", "Keyword '" \o a.keywords[1] \o "' must be at least 3 characters")
    ELSE NoError
\* get_global_search_volume, lines 259-267
ValidateGlobal(a) ==
    IF Len(a.keywords) = 0
    THEN Err("ValueError", "Keywords list cannot be empty")
    ELSE IF Len(a.keywords) > MAX_KEYWORDS
    THEN Err("ValueError", "Maximum 1000 keywords allowed per request")
    ELSE IF \E i \in 1..Len(a.keywords) : Len(a.keywords[i]) < 3
    THEN LET i == CHOOSE j \in 1..Len(a.keywords) :
                     /\ Len(a.keywords[j]) < 3
                     /\ \A k \in 1..(j - 1) : Len(a.keywords[k]) >= 3
         IN  Err("ValueError", "Keyword '" \o a.keywords[i] \o "' must be at least 3 characters")
    ELSE NoError

\* a validation that also wants every keyword to have 3 characters, as that
\* of get_global_search_volume does
ValidateByLocationMinLength(a) ==
    IF Len(a.keywords) = 0
    THEN Err("ValueError", "Keywords list cannot be empty")
    ELSE IF ~(TruthyStr(a.location_name) \/ TruthyInt(a.location_code))
    THEN Err("ValueError", "Either location_name or location_code is required")
    ELSE IF \E i \in 1..Len(a.keywords) : Len(a.keywords[i]) < 3
    THEN Err("ValueError", "Keyword must be at least 3 characters")
    ELSE NoError
\* get_search_volume_by_location, lines 317-321
ValidateByLocation(a) ==
    IF Len(a.keywords) = 0
    THEN Err("ValueError", "Keywords list cannot be empty")
    ELSE IF ~(TruthyStr(a.location_name) \/ TruthyInt(a.location_code))
    THEN Err("ValueError", "Either location_name or location_code is required")
    ELSE NoError

\* a validation that wants 3 characters in every keyword of every operation
ValidateWithMinLength(op, a) ==
    LET short == \E i \in 1..Len(a.keywords) : Len(a.keywords[i]) < 3
        e == CASE op = "get_search_volume" -> ValidateSearchVolume(a)
               [] op = "get_global_search_volume" -> ValidateGlobal(a)
               [] op = "get_search_volume_by_location" -> ValidateByLocation(a)
               [] OTHER -> NoError
    IN  IF e = NoError /\ short
        THEN Err("ValueError", "Keyword must be at least 3 characters")
        ELSE e

\* the validation of the operation called
Validate(op, a) ==
    CASE op = "get_search_volume" -> ValidateSearchVolume(a)
      [] op = "get_global_search_volume" -> ValidateGlobal(a)
      [] op = "get_search_volume_by_location" -> ValidateByLocation(a)
      [] OTHER -> NoError

\* a payload in which the code wins over the name
LocationKeysCodeFirst(a) ==
    IF TruthyInt(a.location_code) THEN "location_code" :> Val(a.location_code)
    ELSE IF TruthyStr(a.location_name) THEN "location_name" :> Val(a.location_name)
    ELSE EmptyDict
\* the optional keys of the task object
LocationKeys(a) ==
    IF TruthyStr(a.location_name) THEN "location_name" :> Val(a.location_name)
    ELSE IF TruthyInt(a.location_code) THEN "location_code" :> Val(a.location_code)
    ELSE EmptyDict
LanguageKeys(a) ==
    IF TruthyStr(a.language_name) THEN "language_name" :> Val(a.language_name)
    ELSE IF TruthyStr(a.language_code) THEN "language_code" :> Val(a.language_code)
    ELSE EmptyDict
TagKey(a) == IF TruthyStr(a.tag) THEN "tag" :> Val(a.tag) ELSE EmptyDict

\* the JSON body of the request: None for GET, a one-element list for POST
Payload(op, a) ==
    CASE op = "get_search_volume" ->
            J(<< [keywords |-> a.keywords, use_clickstream |-> a.use_clickstream]
                 @@ LocationKeys(a) @@ LanguageKeys(a) @@ TagKey(a) >>)
      [] op = "get_global_search_volume" ->
            J(<< [keywords |-> a.keywords] @@ TagKey(a) >>)
      [] op = "get_search_volume_by_location" ->
            J(<< [keywords |-> a.keywords] @@ LocationKeys(a) @@ TagKey(a) >>)
      [] OTHER -> JNull

\* a client that fetches the locations with a POST
MethodPost(op) == "POST"
Method(op) == IF op = "get_locations_and_languages" THEN "GET" ELSE "POST"

Endpoint(op) ==
    CASE op = "get_locations_and_languages" -> "keywords_data/clickstream_data/locations_and_languages"
      [] op = "get_search_volume" -> "keywords_data/google/search_volume/live"
      [] op = "get_global_search_volume" -> "keywords_data/clickstream_data/search_volume_normalized/live"
      [] op = "get_search_volume_by_location" -> "keywords_data/clickstream_data/search_volume_by_location/live"

(***************************************************************************)
(* Response parsing.  A parse yields the list built so far or the error    *)
(* that ended it; an exception discards the local list of results.         *)
(***************************************************************************)
Returned(res) == [error |-> NoError, value |-> res]
Raised(e) == [error |-> e, value |-> <<>>]

\* two consecutive parts of a loop: the first exception wins
Then(a, b) ==
    IF a.error # NoError THEN a
    ELSE IF b.error # NoError THEN b
    ELSE Returned(a.value \o b.value)

\* "for x in <value>": iterating None raises TypeError
NotIterable == Err("TypeError", "'NoneType' object is not iterable")
KeyError(k) == Err("KeyError", k)

\* a client that puts the months in chronological order
MonthlySearchesSorted(item) ==
    LET m == Get(item, "monthly_searches", J(<<>>))
    IN  IF m = JNull THEN m
        ELSE J(SortSeq(Val(m), LAMBDA a, b : a.year < b.year \/ (a.year = b.year /\ a.month < b.month)))

\* monthly_searches=<item>.get("monthly_searches", []), lines 235 and 352
MonthlySearches(item) == Get(item, "monthly_searches", J(<<>>))

\* a record in which an unknown volume is written as 0
LocaleRecordZeroed(result) ==
    [keyword |-> result["keyword"],
     search_volume |-> IF result["search_volume"] = JNull THEN J(0) ELSE result["search_volume"],
     monthly_searches |-> MonthlySearches(result),
     location_code |-> Get(result, "location_code", JNull),
     language_code |-> Get(result, "language_code", JNull),
     use_clickstream |-> Get(result, "use_clickstream", TRUE)]
\* SearchVolumeResult(...) of get_search_volume, lines 232-239
LocaleRecord(result) ==
    [keyword |-> result["keyword"],
     search_volume |-> result["search_volume"],
     monthly_searches |-> MonthlySearches(result),
     location_code |-> Get(result, "location_code", JNull),
     language_code |-> Get(result, "language_code", JNull),
     use_clickstream |-> Get(result, "use_clickstream", TRUE)]

\* a condition that also wants the volume to be known
HasBothFieldsNotNull(result) ==
    /\ "keyword" \in DOMAIN result
    /\ "search_volume" \in DOMAIN result
    /\ result["search_volume"] # JNull

\* the condition of line 231
HasBothFields(result) == "keyword" \in DOMAIN result /\ "search_volume" \in DOMAIN result

\* the loop of lines 229-240 over one task's result list
RECURSIVE LocaleResults(_)
LocaleResults(list) ==
    IF list = <<>> THEN <<>>
    ELSE (IF HasBothFields(Head(list)) THEN <<LocaleRecord(Head(list))>> ELSE <<>>)
         \o LocaleResults(Tail(list))

\* a parser that drops an item without "keyword" or "search_volume"
GlobalRecordSkipping(item) ==
    IF "keyword" \notin DOMAIN item \/ "search_volume" \notin DOMAIN item
    THEN Returned(<<>>)
    ELSE Returned(<< [keyword |-> item["keyword"],
                      search_volume |-> item["search_volume"],
                      country_distribution |-> Get(item, "country_distribution", J(<<>>))] >>)
\* GlobalSearchVolumeResult(...) of lines 290-294
GlobalRecord(item) ==
    IF "keyword" \notin DOMAIN item THEN Raised(KeyError("keyword"))
    ELSE IF "search_volume" \notin DOMAIN item THEN Raised(KeyError("search_volume"))
    ELSE Returned(<< [keyword |-> item["keyword"],
                      search_volume |-> item["search_volume"],
                      country_distribution |-> Get(item, "country_distribution", J(<<>>))] >>)

\* SearchVolumeResult(...) of get_search_volume_by_location, lines 349-354
ByLocationRecord(item, result) ==
    IF "keyword" \notin DOMAIN item THEN Raised(KeyError("keyword"))
    ELSE IF "search_volume" \notin DOMAIN item THEN Raised(KeyError("search_volume"))
    ELSE Returned(<< [keyword |-> item["keyword"],
                      search_volume |-> item["search_volume"],
                      monthly_searches |-> MonthlySearches(item),
                      location_code |-> Get(result, "location_code", JNull),
                      language_code |-> JNull,
                      use_clickstream |-> TRUE] >>)

ItemRecord(op, item, result) ==
    IF op = "get_global_search_volume" THEN GlobalRecord(item)
    ELSE ByLocationRecord(item, result)

\* "for item in result.get('items', [])", lines 289 and 348
RECURSIVE NestedItems(_, _, _)
NestedItems(op, items, result) ==
    IF items = <<>> THEN Returned(<<>>)
    ELSE Then(ItemRecord(op, Head(items), result), NestedItems(op, Tail(items), result))

\* a parser that also takes a keyword object found directly in "result"
NestedOfResultUnified(op, result) ==
    IF "items" \notin DOMAIN result /\ HasBothFields(result)
    THEN ItemRecord(op, result, result)
    ELSE LET items == Get(result, "items", J(<<>>))
         IN  IF items = JNull THEN Raised(NotIterable)
             ELSE NestedItems(op, Val(items), result)

\* one element of "result": its nested items, lines 289 and 348
NestedOfResult(op, result) ==
    LET items == Get(result, "items", J(<<>>))
    IN  IF items = JNull THEN Raised(NotIterable)
        ELSE NestedItems(op, Val(items), result)

\* "for result in task.get('result', [])", lines 288 and 347
RECURSIVE NestedResults(_, _)
NestedResults(op, list) ==
    IF list = <<>> THEN Returned(<<>>)
    ELSE Then(NestedOfResult(op, Head(list)), NestedResults(op, Tail(list)))

\* a loop that skips no task
TaskFailedNever(task) == FALSE

\* whether the loop over the tasks skips this task, lines 223, 284, 343
TaskFailed(task) == Get(task, "status_code", JNull) # J(SUCCESS)

\* the body of the loop over the tasks for one task
ParseTask(op, task) ==
    IF TaskFailed(task) THEN Returned(<<>>)
    ELSE LET result == Get(task, "result", J(<<>>))
         IN  IF result = JNull THEN Raised(NotIterable)
             ELSE IF op = "get_search_volume" THEN Returned(LocaleResults(Val(result)))
             ELSE NestedResults(op, Val(result))

RECURSIVE ParseTasks(_, _)
ParseTasks(op, tasks) ==
    IF tasks = <<>> THEN Returned(<<>>)
    ELSE Then(ParseTask(op, Head(tasks)), ParseTasks(op, Tail(tasks)))

\* what a query method does with the dict _make_request returned
ParseResponse(op, response) ==
    IF op = "get_locations_and_languages" THEN Returned(response)
    ELSE LET tasks == Get(response, "tasks", J(<<>>))
         IN  IF tasks = JNull THEN Raised(NotIterable)
             ELSE ParseTasks(op, Val(tasks))

(***************************************************************************)
(* What the transport hands to _make_request for one request.              *)
(*   json               a response whose body parses to the dict "body"    *)
(*   client_error       aiohttp.ClientError (connection refused, DNS, ...) *)
(*   timeout            asyncio.TimeoutError of ClientTimeout(total=30)    *)
(*   content_type_error response.json() refuses a body that is not typed   *)
(*                      application/json (ContentTypeError, a ClientError)  *)
(*   json_decode_error  response.json() cannot decode the body             *)
(***************************************************************************)
Outcome(kind, body) == [kind |-> kind, body |-> body]
NoOutcome == Outcome("none", EmptyDict)

\* a check that lets a failed envelope through when it carries tasks
EnvelopeFailedWithoutTasks(response_data) ==
    /\ Get(response_data, "status_code", JNull) # J(SUCCESS)
    /\ Get(response_data, "tasks", J(<<>>)) \in {JNull, J(<<>>)}

\* "if response_data.get('status_code') != 20000", lines 119 and 131
EnvelopeFailed(response_data) == Get(response_data, "status_code", JNull) # J(SUCCESS)

\* a _make_request that wraps every exception into "Request failed"
MakeRequestResultWrapAll(outcome) ==
    CASE outcome.kind = "client_error" -> Raised(RequestFailedError("Cannot connect to host"))
      [] outcome.kind = "content_type_error" ->
            Raised(RequestFailedError("Attempt to decode JSON with unexpected mimetype"))
      [] outcome.kind = "timeout" -> Raised(RequestFailedError(""))
      [] outcome.kind = "json_decode_error" -> Raised(RequestFailedError("Expecting value"))
      [] OTHER ->
            LET response_data == outcome.body
            IN  IF EnvelopeFailed(response_data)
                THEN Raised(ApiError(Get(response_data, "status_code", JNull),
                                     Get(response_data, "status_message", "Unknown error")))
                ELSE Returned(response_data)
\* lines 116-123 / 129-135 and the two except clauses, lines 137-144
MakeRequestResult(outcome) ==
    CASE outcome.kind = "client_error" -> Raised(RequestFailedError("Cannot connect to host"))
      [] outcome.kind = "content_type_error" ->
            Raised(RequestFailedError("Attempt to decode JSON with unexpected mimetype"))
      [] outcome.kind = "timeout" -> Raised(Err("TimeoutError", ""))
      [] outcome.kind = "json_decode_error" -> Raised(Err("JSONDecodeError", "Expecting value"))
      [] OTHER ->
            LET response_data == outcome.body
            IN  IF EnvelopeFailed(response_data)
                THEN Raised(ApiError(Get(response_data, "status_code", JNull),
                                     Get(response_data, "status_message", "Unknown error")))
                ELSE Returned(response_data)

\* the whole of a query method after the request was answered
Finish(op, outcome) ==
    LET r == MakeRequestResult(outcome)
    IN  IF r.error # NoError THEN r ELSE ParseResponse(op, r.value)

(***************************************************************************)
(* State.                                                                  *)
(*   rate_limit    the constructor argument                                *)
(*   rate_limiter  asyncio.Semaphore: its _value and its _waiters          *)
(*   session       self.session: None, or the ClientSession (an index      *)
(*                 into pools) the last __aenter__ created                 *)
(*   pools         every ClientSession created so far: whether it is       *)
(*                 closed and how often its connector was closed           *)
(*   depth, extra, exit_exc                                                *)
(*                 the caller: scoped acquisitions not yet exited, calls   *)
(*                 of __aexit__ beyond them, exc_type of the last exit     *)
(*   calls         the invocations of the query methods                    *)
(***************************************************************************)
VARIABLES rate_limit, rate_limiter, session, pools, depth, extra, exit_exc, calls,
          script, store

vars == <<rate_limit, rate_limiter, session, pools, depth, extra, exit_exc, calls,
          script, store>>

\* a step of the client alone: no batch script and no Firestore update runs
ClientOnly == UNCHANGED <<script, store>>

None == 0

Idle ==
    [pc |-> "idle", op |-> "none", args |-> NoArgs, method |-> "none",
     payload |-> JNull, acquired |-> 0, sent |-> 0, pool |-> None,
     outcome |-> NoOutcome, value |-> <<>>, error |-> NoError]

\* a client that keeps the results in a list of its own, never emptied: a
\* call returns what the calls before it built, then its own
EndedAccumulating(call, r) ==
    LET earlier == {c \in Calls : calls[c].pc = "done" /\ calls[c].op = call.op
                                  /\ calls[c].error = NoError}
        kept == IF earlier = {} THEN <<>> ELSE calls[CHOOSE c \in earlier : TRUE].value
    IN  [call EXCEPT !.pc = "done", !.pool = None,
                     !.value = IF call.op \in ListOps /\ r.error = NoError
                               THEN kept \o r.value ELSE r.value,
                     !.error = r.error]
\* an invocation that ended: the value it returned or the error it raised
\* (pool is the session a request in flight is using)
Ended(call, r) ==
    [call EXCEPT !.pc = "done", !.pool = None,
                 !.value = r.value, !.error = r.error]

\* no batch script was started, update_firestore_with_volumes was not called
NoScript == [kind |-> "none", pc |-> "unstarted", len |-> 0, i |-> 0, log |-> <<>>, results |-> <<>>]
NoStore ==
    [pc |-> "idle", seen |-> 0, batch_size |-> 0, pending |-> 0, queued |-> 0,
     commits |-> <<>>, updated_count |-> 0, skipped_count |-> 0]

Init ==
    /\ rate_limit \in 1..MaxRateLimit
    /\ rate_limiter = [value |-> rate_limit, waiters |-> <<>>]
    /\ session = None
    /\ pools = <<>>
    /\ depth = 0
    /\ extra = 0
    /\ exit_exc = JNull
    /\ calls = [c \in Calls |-> Idle]
    /\ script = NoScript
    /\ store = NoStore

(***************************************************************************)
(* asyncio.Semaphore, as "async with self.rate_limiter" uses it.  A state  *)
(* of the gate is the pair of the calls and the semaphore, since a release *)
(* hands the slot to the first waiter.                                     *)
(***************************************************************************)
Gate(cs, sem) == [calls |-> cs, sem |-> sem]

\* a gate that never blocks
LockedNever(sem) == FALSE

\* Semaphore.locked()
Locked(sem) == sem.value = 0 \/ sem.waiters # <<>>

\* a release that wakes nobody
WakeUpNextLost(g) == g
\* Semaphore._wake_up_next(): the first waiter not yet woken gets the slot
WakeUpNext(g) ==
    LET idx == {i \in 1..Len(g.sem.waiters) : g.calls[g.sem.waiters[i]].pc = "waiting"}
    IN  IF idx = {} THEN g
        ELSE LET i == CHOOSE j \in idx : \A k \in idx : j <= k
                 w == g.sem.waiters[i]
             IN  Gate([g.calls EXCEPT ![w].pc = "admitted", ![w].acquired = @ + 1],
                      [g.sem EXCEPT !.value = @ - 1])

\* Semaphore.release()
SemRelease(g) == WakeUpNext([g EXCEPT !.sem.value = @ + 1])

\* a gate released only when the block ended without an error
ExitGateOnSuccess(g, error) == IF error = NoError THEN SemRelease(g) ELSE g

\* leaving "async with self.rate_limiter" with the error raised inside, if any
ExitGate(g, error) == SemRelease(g)

\* a _make_request without its guard
SessionMissingNever(sess) == FALSE

\* "if not self.session", line 101
SessionMissing(sess) == sess = None

\* ClientSession.closed
SessionClosed(sess) == pools[sess].closed

\* lines 108-125 up to the point where the request is on the wire; call c
\* holds a slot.  A closed session refuses the request.
StartRequest(g, c) ==
    IF session = None
    THEN ExitGate([g EXCEPT !.calls[c] =
                      Ended(@, Raised(Err("AttributeError", "'NoneType' object has no attribute")))],
                  Err("AttributeError", "'NoneType' object has no attribute"))
    ELSE IF SessionClosed(session)
    THEN ExitGate([g EXCEPT !.calls[c] = Ended(@, Raised(SessionClosedError))],
                  SessionClosedError)
    ELSE [g EXCEPT !.calls[c].pc = "inflight", !.calls[c].sent = @ + 1,
                   !.calls[c].pool = session]

(***************************************************************************)
(* Actions.                                                                *)
(***************************************************************************)
\* an __aenter__ that also makes a new gate
aenterFreshGate ==
    /\ Len(pools) < MaxAcquisitions
    /\ pools' = Append(pools, [closed |-> FALSE, closes |-> 0])
    /\ session' = Len(pools) + 1
    /\ depth' = depth + 1
    /\ extra' = 0
    /\ rate_limiter' = [value |-> rate_limit, waiters |-> <<>>]
    /\ UNCHANGED <<rate_limit, exit_exc, calls>>
\* __aenter__, lines 68-74
aenter ==
    /\ Len(pools) < MaxAcquisitions
    /\ pools' = Append(pools, [closed |-> FALSE, closes |-> 0])
    /\ session' = Len(pools) + 1
    /\ depth' = depth + 1
    /\ extra' = 0
    /\ UNCHANGED <<rate_limit, rate_limiter, exit_exc, calls>>

\* an __aexit__ that leaves the session open
ShouldCloseNever(sess) == FALSE

\* "if self.session", line 78
ShouldClose(sess) == sess # None

\* ClientSession.close(): closes the connector unless already closed
SessionClose(ps, sess) ==
    IF ps[sess].closed THEN ps
    ELSE [ps EXCEPT ![sess].closed = TRUE, ![sess].closes = @ + 1]

\* __aexit__, lines 76-79, called with exc_type = exc
aexit(exc) ==
    /\ \/ depth > 0 /\ depth' = depth - 1 /\ extra' = extra
       \/ depth = 0 /\ extra < MaxExtraExits /\ extra' = extra + 1 /\ depth' = depth
    /\ exit_exc' = exc
    /\ pools' = IF ShouldClose(session) THEN SessionClose(pools, session) ELSE pools
    /\ UNCHANGED <<rate_limit, rate_limiter, session, calls>>

\* a query method that looks at the session before it looks at its arguments
InvokeLifecycleFirst(c, inv) ==
    /\ calls[c].pc = "idle"
    /\ LET started == [Idle EXCEPT !.op = inv.op, !.args = inv.args]
           invalid == Validate(inv.op, inv.args)
           request == [started EXCEPT !.method = Method(inv.op),
                                      !.payload = Payload(inv.op, inv.args)]
       IN  IF SessionMissing(session)
           THEN /\ calls' = [calls EXCEPT ![c] = Ended(started, Raised(NotInitializedError))]
                /\ UNCHANGED rate_limiter
           ELSE IF invalid # NoError
           THEN /\ calls' = [calls EXCEPT ![c] = Ended(started, Raised(invalid))]
                /\ UNCHANGED rate_limiter
           ELSE IF ~Locked(rate_limiter)
           THEN LET g == StartRequest(
                            Gate([calls EXCEPT ![c] = [request EXCEPT !.acquired = 1]],
                                 [rate_limiter EXCEPT !.value = @ - 1]), c)
                IN  calls' = g.calls /\ rate_limiter' = g.sem
           ELSE /\ calls' = [calls EXCEPT ![c] = [request EXCEPT !.pc = "waiting"]]
                /\ rate_limiter' = [rate_limiter EXCEPT !.waiters = Append(@, c)]
    /\ UNCHANGED <<rate_limit, session, pools, depth, extra, exit_exc>>
\* a query method is called: validation, payload, then _make_request up to
\* its first suspension
Invoke(c, inv) ==
    /\ calls[c].pc = "idle"
    /\ LET started == [Idle EXCEPT !.op = inv.op, !.args = inv.args]
           invalid == Validate(inv.op, inv.args)
           request == [started EXCEPT !.method = Method(inv.op),
                                      !.payload = Payload(inv.op, inv.args)]
       IN  IF invalid # NoError
           THEN /\ calls' = [calls EXCEPT ![c] = Ended(started, Raised(invalid))]
                /\ UNCHANGED rate_limiter
           ELSE IF SessionMissing(session)
           THEN /\ calls' = [calls EXCEPT ![c] = Ended(request, Raised(NotInitializedError))]
                /\ UNCHANGED rate_limiter
           ELSE IF ~Locked(rate_limiter)
           THEN LET g == StartRequest(
                            Gate([calls EXCEPT ![c] = [request EXCEPT !.acquired = 1]],
                                 [rate_limiter EXCEPT !.value = @ - 1]), c)
                IN  calls' = g.calls /\ rate_limiter' = g.sem
           ELSE /\ calls' = [calls EXCEPT ![c] = [request EXCEPT !.pc = "waiting"]]
                /\ rate_limiter' = [rate_limiter EXCEPT !.waiters = Append(@, c)]
    /\ UNCHANGED <<rate_limit, session, pools, depth, extra, exit_exc>>

\* a woken waiter runs again: the rest of Semaphore.acquire(), then the request
Resume(c) ==
    /\ calls[c].pc = "admitted"
    /\ LET sem1 == [rate_limiter EXCEPT !.waiters = SelectSeq(@, LAMBDA w : w # c)]
           g1 == IF sem1.value > 0 THEN WakeUpNext(Gate(calls, sem1)) ELSE Gate(calls, sem1)
           g2 == StartRequest(g1, c)
       IN  calls' = g2.calls /\ rate_limiter' = g2.sem
    /\ UNCHANGED <<rate_limit, session, pools, depth, extra, exit_exc>>

\* a client that sends the request a second time after a transport error
CompleteRetrying(c, o) ==
    /\ calls[c].pc = "inflight"
    /\ IF o.kind = "client_error" /\ calls[c].sent < 2
       THEN /\ calls' = [calls EXCEPT ![c].sent = @ + 1]
            /\ rate_limiter' = rate_limiter
       ELSE LET r == Finish(calls[c].op, o)
                g == ExitGate(Gate([calls EXCEPT ![c] = Ended([@ EXCEPT !.outcome = o], r)],
                                   rate_limiter),
                              MakeRequestResult(o).error)
            IN  calls' = g.calls /\ rate_limiter' = g.sem
    /\ UNCHANGED <<rate_limit, session, pools, depth, extra, exit_exc>>
\* the transport answers the request of call c with outcome o; the rest of
\* _make_request and of the query method run
Complete(c, o) ==
    /\ calls[c].pc = "inflight"
    /\ LET r == Finish(calls[c].op, o)
           g == ExitGate(Gate([calls EXCEPT ![c] = Ended([@ EXCEPT !.outcome = o], r)],
                              rate_limiter),
                         MakeRequestResult(o).error)
       IN  calls' = g.calls /\ rate_limiter' = g.sem
    /\ UNCHANGED <<rate_limit, session, pools, depth, extra, exit_exc>>

\* the caller takes the result; the slot of the model is free for a new call
Return(c) ==
    /\ calls[c].pc = "done"
    /\ calls' = [calls EXCEPT ![c] = Idle]
    /\ UNCHANGED <<rate_limit, rate_limiter, session, pools, depth, extra, exit_exc>>

(***************************************************************************)
(* Inputs: the invocations a caller makes and the answers of the provider. *)
(***************************************************************************)
Invocation(op, a) == [op |-> op, args |-> a]

ValidLocale == Args(<<"seo tools">>, J("United States"), JNull, J("English"), JNull, TRUE, JNull)
ValidGlobal == Args(<<"seo tools">>, JNull, JNull, JNull, JNull, TRUE, JNull)
ValidByLocation == Args(<<"seo tools">>, JNull, J(2840), JNull, JNull, TRUE, JNull)

\* one valid invocation of each method
ValidInvocations ==
    {Invocation("get_locations_and_languages", NoArgs),
     Invocation("get_search_volume", ValidLocale),
     Invocation("get_global_search_volume", ValidGlobal),
     Invocation("get_search_volume_by_location", ValidByLocation)}

CoreInvocations ==
    {Invocation("get_locations_and_languages", NoArgs),
     Invocation("get_search_volume", ValidLocale)}

Repeat(kw, n) == [i \in 1..n |-> kw]
KeywordLists ==
    {<<>>, <<"seo tools">>, <<"ai", "seo tools">>, <<"seo tools", "ai">>,
     Repeat("seo", MAX_KEYWORDS), Repeat("seo", MAX_KEYWORDS + 1)}
LocationNames == {JNull, J("United States"), J("")}
LocationCodes == {JNull, J(2840), J(0)}
LanguageNames == {JNull, J("English")}
LanguageCodes == {JNull, J("en")}
Tags == {JNull, J("batch-1")}

AllInvocations ==
    {Invocation("get_locations_and_languages", NoArgs)}
    \cup {Invocation("get_search_volume", Args(k, ln, lc, gn, gc, TRUE, t)) :
             k \in KeywordLists, ln \in LocationNames, lc \in LocationCodes,
             gn \in LanguageNames, gc \in LanguageCodes, t \in Tags}
    \cup {Invocation("get_global_search_volume", Args(k, JNull, JNull, JNull, JNull, TRUE, t)) :
             k \in KeywordLists, t \in Tags}
    \cup {Invocation("get_search_volume_by_location", Args(k, ln, lc, JNull, JNull, TRUE, t)) :
             k \in KeywordLists, ln \in LocationNames, lc \in LocationCodes, t \in Tags}

\* monthly_searches entries
Month(y, m, v) == [year |-> y, month |-> m, search_volume |-> v]

\* keyword objects as the provider sends them
ItemFull ==
    [keyword |-> "seo tools", search_volume |-> J(1200),
     monthly_searches |-> J(<<Month(2024, 3, 900), Month(2024, 1, 1500), Month(2024, 2, 1500)>>),
     location_code |-> J(2840), language_code |-> J("en"), use_clickstream |-> FALSE]
ItemZero ==
    [keyword |-> "ai", search_volume |-> J(0),
     monthly_searches |-> J(<<Month(2024, 2, 0), Month(2024, 2, 0)>>)]
ItemNullVolume == [keyword |-> "xyz", search_volume |-> JNull, monthly_searches |-> JNull]
ItemNoVolume == [keyword |-> "orphan"]
ItemNoKeyword == [search_volume |-> J(5)]
Items == {ItemFull, ItemZero, ItemNullVolume, ItemNoVolume, ItemNoKeyword}

\* elements of "result" that nest the keyword objects under "items"
Container(items) == [items |-> items, location_code |-> J(2840)]
Containers ==
    {Container(J(s)) : s \in SeqUpTo(Items, MaxItems)}
    \cup {Container(JNull), [location_code |-> J(2840)]}

Task(code, message, result) == [status_code |-> J(code), status_message |-> message, result |-> result]

\* the "result" lists of a single task
ResultLists ==
    SeqUpTo(Items, MaxItems)
    \cup {<<g>> : g \in Containers}
    \cup {<<Container(J(<<i>>)), Container(J(<<j>>))>> : i, j \in Items}

\* the tasks that responses with several tasks are made of
SomeTasks ==
    {Task(40501, "Invalid Field", JNull),
     Task(40501, "Invalid Field", J(<<ItemFull, Container(J(<<ItemFull>>))>>)),
     Task(SUCCESS, "Ok.", J(<<ItemFull>>)),
     Task(SUCCESS, "Ok.", J(<<ItemZero, ItemNoVolume>>)),
     Task(SUCCESS, "Ok.", J(<<Container(J(<<ItemZero>>))>>)),
     Task(SUCCESS, "Ok.", J(<<Container(J(<<ItemFull, ItemNoKeyword>>))>>)),
     Task(SUCCESS, "Ok.", J(<<>>)),
     Task(SUCCESS, "Ok.", JNull),
     [status_code |-> J(SUCCESS), status_message |-> "Ok."]}

TaskLists ==
    SeqUpTo(SomeTasks, MaxTasks)
    \cup {<<Task(SUCCESS, "Ok.", J(r))>> : r \in ResultLists}

Envelope(code, message, tasks) == [status_code |-> J(code), status_message |-> message, tasks |-> J(tasks)]

OkBodies ==
    {Envelope(SUCCESS, "Ok.", t) : t \in TaskLists}
    \cup {[status_code |-> J(SUCCESS), status_message |-> "Ok."]}

ErrorBodies ==
    {Envelope(40101, "Authentication failed", t) : t \in SeqUpTo(SomeTasks, 1)}
    \cup {Envelope(40101, "Authentication failed", <<Task(SUCCESS, "Ok.", J(<<ItemFull>>)),
                                                               Task(SUCCESS, "Ok.", J(<<ItemZero>>))>>),
          [status_code |-> J(40101), tasks |-> J(<<Task(SUCCESS, "Ok.", J(<<ItemFull>>))>>)],
          [status_message |-> "Ok.", tasks |-> J(<<Task(SUCCESS, "Ok.", J(<<ItemFull>>))>>)],
          [status_code |-> JNull, status_message |-> "Internal error"]}

Failures ==
    {Outcome(k, EmptyDict) :
        k \in {"client_error", "timeout", "content_type_error", "json_decode_error"}}
CoreFailures == {Outcome(k, EmptyDict) : k \in {"client_error", "json_decode_error"}}

AllOutcomes == {Outcome("json", b) : b \in OkBodies \cup ErrorBodies} \cup Failures

CoreOutcomes ==
    {Outcome("json", Envelope(SUCCESS, "Ok.", <<Task(SUCCESS, "Ok.", J(<<ItemFull>>))>>)),
     Outcome("json", Envelope(40101, "Authentication failed", <<>>))}
    \cup CoreFailures

(***************************************************************************)
(* The batch scripts.  Each enters the client, walks its keywords in       *)
(* slices of batch_size, awaits one get_search_volume per slice and sleeps *)
(* between slices.  script.log records what the run did, in order.         *)
(***************************************************************************)
MaxBatches == 2

MAX_KEYWORDS_PER_BATCH == 1000
INTER_BATCH_DELAY == 5

Scripts == {"get_monthly_volumes_for_keywords", "get_monthly_search_volumes", "main"}

Min(a, b) == IF a <= b THEN a ELSE b

\* batch_size of each script
BatchSize(kind) ==
    CASE kind = "get_monthly_volumes_for_keywords" -> 700
      [] kind = "get_monthly_search_volumes" -> Min(700, MAX_KEYWORDS_PER_BATCH)
      [] kind = "main" -> 100

\* batch_num = i // batch_size + 1, total_batches = (len + batch_size - 1) // batch_size
BatchNum(kind, i) == (i \div BatchSize(kind)) + 1
TotalBatches(kind, len) == (len + BatchSize(kind) - 1) \div BatchSize(kind)

\* keywords[i:i + batch_size] of a list of len keywords
Slice(kind, i, len) == Repeat("seo tools", Min(BatchSize(kind), len - i))

\* the call each script makes for the slice at i
BatchInvocation(kind, i, len) ==
    CASE kind = "get_monthly_volumes_for_keywords" ->
            Invocation("get_search_volume",
                       Args(Slice(kind, i, len), J("United States"), JNull, J("English"), JNull, TRUE,
                            J("monthly_volumes_batch_" \o ToString(BatchNum(kind, i)))))
      [] kind = "get_monthly_search_volumes" ->
            Invocation("get_search_volume",
                       Args(Slice(kind, i, len), J("United States"), JNull, J("English"), JNull, TRUE,
                            J("firestore_update_batch_" \o ToString(BatchNum(kind, i)))))
      [] kind = "main" ->
            Invocation("get_search_volume",
                       Args(Slice(kind, i, len), JNull, J(2840), JNull, J("en"), TRUE, JNull))

\* whether the script's except clauses catch error e of the client call:
\* process_keywords_batch has "except DataForSEOError" only, the other two
\* scripts also "except Exception"
Catches(kind, e) == kind # "main" \/ e.cls = "DataForSEOError"

\* whether the except clause that caught the error ends with "continue"
ContinuesAfterError(kind) == kind = "get_monthly_search_volumes"

\* the test in front of asyncio.sleep(5)
MoreBatches(kind, i, len) ==
    IF kind = "main" THEN BatchNum(kind, i) < TotalBatches(kind, len)
    ELSE i + BatchSize(kind) < len

Event(ev, batch, ok, seconds) == [ev |-> ev, batch |-> batch, ok |-> ok, seconds |-> seconds]

\* the script is called with len keywords: "async with DataForSEOClient(...)"
BatchStart(kind, len) ==
    /\ script.pc = "unstarted"
    /\ aenter
    /\ script' = [kind |-> kind, pc |-> "loop", len |-> len, i |-> 0,
                  log |-> <<>>, results |-> <<>>]
    /\ UNCHANGED store

\* the loop body up to "await client.get_search_volume(...)"
BatchRequest ==
    /\ script.pc = "loop"
    /\ script.i < script.len
    /\ Invoke(1, BatchInvocation(script.kind, script.i, script.len))
    /\ script' = [script EXCEPT
                    !.pc = "awaiting",
                    !.log = Append(@, Event("request", BatchNum(script.kind, script.i), TRUE, 0))]
    /\ UNCHANGED store

\* the provider answers the request of the batch
BatchAnswer(o) ==
    /\ script.pc = "awaiting"
    /\ Complete(1, o)
    /\ UNCHANGED <<script, store>>

\* the await returns or raises: the rest of the try block, the except
\* clauses, and the test in front of the sleep
BatchHandle ==
    /\ script.pc = "awaiting"
    /\ calls[1].pc = "done"
    /\ Return(1)
    /\ LET kind == script.kind
           e == calls[1].error
           batch == BatchNum(kind, script.i)
           logged == Append(script.log, Event("completed", batch, e = NoError, 0))
           row == IF e = NoError THEN <<[batch |-> batch, status |-> "data"]>>
                  ELSE IF kind = "main" THEN <<[batch |-> batch, status |-> "error"]>>
                  ELSE <<>>
           rested == IF MoreBatches(kind, script.i, script.len)
                     THEN [script EXCEPT !.pc = "sleep", !.log = logged, !.results = @ \o row]
                     ELSE [script EXCEPT !.pc = "loop", !.i = @ + BatchSize(kind),
                                         !.log = logged, !.results = @ \o row]
       IN  script' =
              IF e = NoError THEN rested
              ELSE IF ~Catches(kind, e) THEN [script EXCEPT !.pc = "raising", !.log = logged]
              ELSE IF ContinuesAfterError(kind)
              THEN [script EXCEPT !.pc = "loop", !.i = @ + BatchSize(kind), !.log = logged]
              ELSE rested
    /\ UNCHANGED store

\* await asyncio.sleep(5), then the next turn of the loop
BatchSleep ==
    /\ script.pc = "sleep"
    /\ script' = [script EXCEPT
                    !.pc = "loop", !.i = @ + BatchSize(script.kind),
                    !.log = Append(@, Event("sleep", BatchNum(script.kind, script.i), TRUE,
                                            INTER_BATCH_DELAY))]
    /\ UNCHANGED <<rate_limit, rate_limiter, session, pools, depth, extra, exit_exc, calls, store>>

\* the loop is over: the "async with" block is left and the results returned
BatchExit ==
    /\ script.pc = "loop"
    /\ script.i >= script.len
    /\ aexit(JNull)
    /\ script' = [script EXCEPT !.pc = "returned"]
    /\ UNCHANGED store

\* an error nothing caught leaves the "async with" block and the script
BatchRaise ==
    /\ script.pc = "raising"
    /\ aexit(J("Exception"))
    /\ script' = [script EXCEPT !.pc = "crashed"]
    /\ UNCHANGED store

\* the numbers of keywords the scripts are run with: none, and for every
\* number of batches a last slice of one keyword and a full last slice
Lens(kind) ==
    {0} \cup {BatchSize(kind) * (m - 1) + 1 : m \in 1..MaxBatches}
        \cup {BatchSize(kind) * m : m \in 1..MaxBatches}

\* the answers a batch can get
BatchOutcomes ==
    {Outcome("json", Envelope(SUCCESS, "Ok.", <<Task(SUCCESS, "Ok.", J(<<ItemFull>>))>>)),
     Outcome("json", Envelope(40101, "Authentication failed", <<>>)),
     Outcome("client_error", EmptyDict),
     Outcome("timeout", EmptyDict),
     Outcome("json_decode_error", EmptyDict)}

(***************************************************************************)
(* FirestoreKeywordUpdater.update_firestore_with_volumes.  The input map   *)
(* is drawn one keyword at a time; store.pending is the number of updates  *)
(* the write batch holds, store.commits the size of every commit made.     *)
(***************************************************************************)
MaxInputs == 501

max_batch_size == 500

StoreOnly ==
    UNCHANGED <<rate_limit, rate_limiter, session, pools, depth, extra, exit_exc, calls, script>>

\* how the document of a keyword is found: by its id, by the query on the
\* keyword field, or not at all
Lookups == {"by_id", "by_query", "missing"}

\* a batch that is committed only once it holds more than the limit
BatchFullOver(size) == size > max_batch_size

\* "if batch_size >= max_batch_size"
BatchFull(size) == size >= max_batch_size

\* batch.commit() and the fresh batch that follows it
Commit(st) == [st EXCEPT !.commits = Append(@, st.pending), !.pending = 0, !.batch_size = 0]

\* the function is called: a fresh write batch and counters at zero
StoreStart ==
    /\ store.pc = "idle"
    /\ store' = [NoStore EXCEPT !.pc = "running"]
    /\ StoreOnly

\* one turn of the loop over search_volumes.items()
StoreKeyword(found) ==
    /\ store.pc = "running"
    /\ store.seen < MaxInputs
    /\ LET looked == [store EXCEPT !.seen = @ + 1]
           queued == IF found = "missing"
                     THEN [looked EXCEPT !.skipped_count = @ + 1]
                     ELSE [looked EXCEPT !.pending = @ + 1, !.queued = @ + 1,
                                         !.batch_size = @ + 1, !.updated_count = @ + 1]
       IN  store' = IF BatchFull(queued.batch_size) THEN Commit(queued) ELSE queued
    /\ StoreOnly

\* a Firestore call raises: "except Exception: ... raise"
StoreFail ==
    /\ store.pc = "running"
    /\ store' = [store EXCEPT !.pc = "raised"]
    /\ StoreOnly

\* the map is exhausted: the remaining updates are committed and the
\* function returns
StoreFinish ==
    /\ store.pc = "running"
    /\ store' = [(IF store.batch_size > 0 THEN Commit(store) ELSE store) EXCEPT !.pc = "returned"]
    /\ StoreOnly

(***************************************************************************)
(* Specifications.                                                         *)
(*   Spec       concurrent calls on one client used through sequential     *)
(*              scoped acquisitions                                        *)
(*   SpecArgs   one caller, every argument combination                     *)
(*   SpecParse  one caller, every provider answer                          *)
(***************************************************************************)
\* "async with DataForSEOClient(...) as client": the caller's scopes do not overlap
ScopedEnter == depth = 0 /\ aenter

Exit == \E exc \in {JNull, J("Exception")} : aexit(exc)

Next ==
    \/ ScopedEnter /\ ClientOnly
    \/ aexit(JNull) /\ ClientOnly
    \/ \E c \in Calls, inv \in CoreInvocations : Invoke(c, inv) /\ ClientOnly
    \/ \E c \in Calls : Resume(c) /\ ClientOnly
    \/ \E c \in Calls, o \in CoreOutcomes : Complete(c, o) /\ ClientOnly
    \/ \E c \in Calls : Return(c) /\ ClientOnly

Spec == Init /\ [][Next]_vars

NextArgs ==
    \/ ScopedEnter /\ ClientOnly
    \/ Exit /\ ClientOnly
    \/ \E inv \in AllInvocations : Invoke(1, inv) /\ ClientOnly
    \/ \E o \in CoreOutcomes : Complete(1, o) /\ ClientOnly
    \/ Return(1) /\ ClientOnly

SpecArgs == Init /\ [][NextArgs]_vars

NextParse ==
    \/ ScopedEnter /\ ClientOnly
    \/ aexit(JNull) /\ ClientOnly
    \/ \E inv \in ValidInvocations : Invoke(1, inv) /\ ClientOnly
    \/ \E o \in AllOutcomes : Complete(1, o) /\ ClientOnly
    \/ Return(1) /\ ClientOnly

SpecParse == Init /\ [][NextParse]_vars

\* the same client entered again before it was left: nested "async with"
\* blocks, or two tasks that each enter the client
NextOverlap ==
    \/ aenter /\ ClientOnly
    \/ Exit /\ ClientOnly
    \/ \E inv \in CoreInvocations : Invoke(1, inv) /\ ClientOnly
    \/ \E o \in CoreOutcomes : Complete(1, o) /\ ClientOnly
    \/ Return(1) /\ ClientOnly

SpecOverlap == Init /\ [][NextOverlap]_vars
\* Concurrent calls of one operation, with the scheduling the event loop gives them: a waiter whose future was set
\* runs again (the loop runs every ready callback), and every request on the
\* wire is answered, be it with a response, an error or the timeout of the
\* session.
LiveInvocations == {Invocation("get_locations_and_languages", NoArgs)}
LiveOutcomes ==
    {Outcome("json", Envelope(SUCCESS, "Ok.", <<>>)), Outcome("client_error", EmptyDict)}

NextLive ==
    \/ ScopedEnter /\ ClientOnly
    \/ aexit(JNull) /\ ClientOnly
    \/ \E c \in Calls, inv \in LiveInvocations : Invoke(c, inv) /\ ClientOnly
    \/ \E c \in Calls : Resume(c) /\ ClientOnly
    \/ \E c \in Calls, o \in LiveOutcomes : Complete(c, o) /\ ClientOnly
    \/ \E c \in Calls : Return(c) /\ ClientOnly

Fairness ==
    \A c \in Calls :
       /\ WF_vars(Resume(c) /\ ClientOnly)
       /\ WF_vars(\E o \in LiveOutcomes : Complete(c, o) /\ ClientOnly)

SpecLive == Init /\ [][NextLive]_vars /\ Fairness

\* one run of one batch script
NextBatch ==
    \/ \E kind \in Scripts : \E len \in Lens(kind) : BatchStart(kind, len)
    \/ BatchRequest
    \/ \E o \in BatchOutcomes : BatchAnswer(o)
    \/ BatchHandle
    \/ BatchSleep
    \/ BatchExit
    \/ BatchRaise

SpecBatch == Init /\ [][NextBatch]_vars
\* one call of update_firestore_with_volumes
NextStore ==
    \/ StoreStart
    \/ \E found \in Lookups : StoreKeyword(found)
    \/ StoreFail
    \/ StoreFinish

SpecStore == Init /\ [][NextStore]_vars
TypeOK ==
    /\ rate_limit \in 1..MaxRateLimit
    /\ rate_limiter.value \in 0..rate_limit
    /\ session \in 0..Len(pools)
    /\ depth \in 0..1
    /\ \A c \in Calls : calls[c].pc \in {"idle", "waiting", "admitted", "inflight", "done"}

(***************************************************************************)
(* Properties.                                                             *)
(***************************************************************************)
InFlight == {c \in Calls : calls[c].pc = "inflight"}
SlotHolders == {c \in Calls : calls[c].pc \in {"admitted", "inflight"}}
Quiescent == \A c \in Calls : calls[c].pc \in {"idle", "done"}

\* the lifecycle of the specification
Unacquired == pools = <<>>
Released == session # None /\ pools[session].closed /\ depth = 0

\* call c leaves "idle" in this step with arguments that pass validation
InvokedValid(c) ==
    /\ calls[c].pc = "idle"
    /\ calls'[c].pc # "idle"
    /\ Validate(calls'[c].op, calls'[c].args) = NoError

\* C1: at every moment the number of HTTP requests in flight (sent and not
\* yet completed) is at most rate_limit, however many calls were issued.
C1_InFlightBounded == Cardinality(InFlight) <= rate_limit

\* rate_limit requests are in flight and one more call waits at the gate
C1_Witness ==
    /\ Cardinality(InFlight) = rate_limit
    /\ \E c \in Calls : calls[c].pc = "waiting"

\* C2: every slot taken from the gate is given back when the call ends, on
\* every exit path: the free slots and the slots of the calls still between
\* acquire and release always add up to rate_limit, so that whenever no call
\* is in progress all rate_limit slots are free.
C2_SlotsReleased ==
    /\ rate_limiter.value + Cardinality(SlotHolders) = rate_limit
    /\ Quiescent => rate_limiter.value = rate_limit

\* nothing is in progress after calls that took a slot ended in a transport
\* error and in a failure to parse the body
C2_Witness ==
    /\ Quiescent
    /\ \E c \in Calls : /\ calls[c].pc = "done" /\ calls[c].acquired = 1
                        /\ IsRequestFailed(calls[c].error)
    /\ \E c \in Calls : /\ calls[c].pc = "done" /\ calls[c].acquired = 1
                        /\ calls[c].error.cls = "JSONDecodeError"
    /\ rate_limiter.value = rate_limit

\* C3: a query method called with valid arguments on a client that was never
\* acquired fails at once with the "Client not initialized" DataForSEOError,
\* takes no slot of the gate and sends no HTTP request.
C3_UnacquiredNotInitialized ==
    [][\A c \in Calls :
          (InvokedValid(c) /\ Unacquired) =>
             /\ calls'[c].pc = "done"
             /\ IsClientNotInitialized(calls'[c].error)
             /\ calls'[c].acquired = 0
             /\ calls'[c].sent = 0
             /\ rate_limiter' = rate_limiter]_vars

\* a call of get_search_volume_by_location ended that way, the client never acquired
C3_Witness ==
    /\ Unacquired
    /\ calls[1].pc = "done"
    /\ calls[1].op = "get_search_volume_by_location"
    /\ Validate(calls[1].op, calls[1].args) = NoError
    /\ IsClientNotInitialized(calls[1].error)
    /\ calls[1].sent = 0

\* C4 (as claimed): a query method called with valid arguments after the
\* scoped acquisition was released fails with the same "Client not
\* initialized" error as before acquisition, and sends no HTTP request.
C4_ReleasedNotInitialized ==
    [][\A c \in Calls :
          (InvokedValid(c) /\ Released) =>
             /\ calls'[c].pc = "done"
             /\ IsClientNotInitialized(calls'[c].error)
             /\ calls'[c].sent = 0]_vars

\* C5: once a scoped acquisition has exited, normally or with an error, the
\* session it opened is closed and its connector was closed exactly once; a
\* further __aexit__ closes nothing again.
C5_PoolClosedOnce ==
    \A p \in 1..Len(pools) :
       /\ pools[p].closes <= 1
       /\ (p < Len(pools) \/ depth = 0) => (pools[p].closed /\ pools[p].closes = 1)

\* the scope was left by an exception and __aexit__ was called a second time
C5_Witness ==
    /\ Len(pools) = 1
    /\ depth = 0
    /\ extra = 1
    /\ exit_exc = J("Exception")
    /\ pools[1].closes = 1

(***************************************************************************)
(* What the properties of the parsed results are stated with: the reading  *)
(* of a response by the provider's documentation, not by the client.       *)
(***************************************************************************)
RECURSIVE Concat(_)
Concat(ss) == IF ss = <<>> THEN <<>> ELSE Head(ss) \o Concat(Tail(ss))

Map(s, F(_)) == [i \in 1..Len(s) |-> F(s[i])]

\* a completed call whose response had a successful envelope
Answered(c) ==
    /\ calls[c].pc = "done"
    /\ calls[c].outcome.kind = "json"
    /\ "status_code" \in DOMAIN calls[c].outcome.body
    /\ calls[c].outcome.body["status_code"] = J(SUCCESS)

\* the tasks of a body, and those of them whose own status_code is 20000
TasksOf(body) == IF "tasks" \in DOMAIN body THEN Val(body["tasks"]) ELSE <<>>
TaskSucceeded(t) == "status_code" \in DOMAIN t /\ t["status_code"] = J(SUCCESS)
SucceededTasks(body) == SelectSeq(TasksOf(body), TaskSucceeded)

\* the "result" list of a task; an absent or null result is no list
HasResultList(t) == "result" \in DOMAIN t /\ t["result"] # JNull
ResultOf(t) == IF HasResultList(t) THEN Val(t["result"]) ELSE <<>>

\* the keyword objects a call of op reads from a body, in order: the
\* qualifying objects of "result" for get_search_volume, the objects of the
\* nested "items" for the other two
Qualifies(item) == {"keyword", "search_volume"} \subseteq DOMAIN item
ItemsOf(element) ==
    IF "items" \in DOMAIN element /\ element["items"] # JNull THEN Val(element["items"]) ELSE <<>>
SourceItems(op, body) ==
    IF op = "get_search_volume"
    THEN Concat(Map(SucceededTasks(body), LAMBDA t : SelectSeq(ResultOf(t), Qualifies)))
    ELSE Concat(Map(SucceededTasks(body), LAMBDA t : Concat(Map(ResultOf(t), ItemsOf))))

\* C6: whenever the envelope's status_code is not 20000 the call raises the
\* "API error <code>: <message>" DataForSEOError carrying the provider's code
\* and message and returns nothing, whatever the tasks contain.
C6_EnvelopeErrorRaises ==
    \A c \in Calls :
       (/\ calls[c].pc = "done"
        /\ calls[c].outcome.kind = "json"
        /\ Get(calls[c].outcome.body, "status_code", JNull) # J(SUCCESS))
       => LET body == calls[c].outcome.body
              code == IF "status_code" \in DOMAIN body /\ body["status_code"] # JNull
                      THEN ToString(Val(body["status_code"])) ELSE "None"
              message == IF "status_message" \in DOMAIN body
                         THEN body["status_message"] ELSE "Unknown error"
          IN  /\ IsProviderError(calls[c].error)
              /\ calls[c].error.msg = "API error " \o code \o ": " \o message
              /\ calls[c].value = <<>>

\* get_search_volume raised API error 40101 although both tasks of the
\* response succeeded with results
C6_Witness ==
    /\ calls[1].pc = "done"
    /\ calls[1].op = "get_search_volume"
    /\ calls[1].outcome.kind = "json"
    /\ calls[1].outcome.body = Envelope(40101, "Authentication failed",
                                        <<Task(SUCCESS, "Ok.", J(<<ItemFull>>)),
                                          Task(SUCCESS, "Ok.", J(<<ItemZero>>))>>)
    /\ calls[1].error = Err("DataForSEOError", "API error 40101: Authentication failed")

\* C7: for the three list-returning methods, with a successful envelope the
\* call behaves as if the response held only the tasks whose own status_code
\* is 20000: it returns the concatenation, in task order, of what each of
\* them parses to, and it raises only if parsing one of them raises.  A task
\* with any other status code contributes nothing and raises nothing.
C7_OnlySucceededTasks ==
    \A c \in Calls :
       (Answered(c) /\ calls[c].op \in ListOps)
       => LET op == calls[c].op
              parts == Map(SucceededTasks(calls[c].outcome.body), LAMBDA t : ParseTask(op, t))
              raising == {i \in 1..Len(parts) : parts[i].error # NoError}
          IN  IF raising = {}
              THEN /\ calls[c].error = NoError
                   /\ calls[c].value = Concat(Map(parts, LAMBDA r : r.value))
              ELSE /\ calls[c].error = parts[CHOOSE i \in raising : \A j \in raising : i <= j].error
                   /\ calls[c].value = <<>>

\* of two tasks the first failed (and carried results), the second succeeded:
\* the call returned the one result of the second
C7_Witness ==
    /\ Answered(1)
    /\ calls[1].op = "get_search_volume"
    /\ TasksOf(calls[1].outcome.body) =
          <<Task(40501, "Invalid Field", J(<<ItemFull, Container(J(<<ItemFull>>))>>)),
            Task(SUCCESS, "Ok.", J(<<ItemZero, ItemNoVolume>>))>>
    /\ calls[1].error = NoError
    /\ Len(calls[1].value) = 1
    /\ calls[1].value[1].keyword = "ai"

\* C8: get_search_volume never raises on successful tasks whose result is a
\* list (or absent), and returns exactly one SearchVolumeResult per object of the list
\* that has both a keyword and a search_volume field, in the order of the
\* list, each field being the object's own value (or the default of the
\* dataclass when the object lacks it); the other objects are dropped.
C8_OneResultPerQualifyingItem ==
    \A c \in Calls :
       (/\ Answered(c)
        /\ calls[c].op = "get_search_volume"
        /\ \A i \in 1..Len(SucceededTasks(calls[c].outcome.body)) :
              Get(SucceededTasks(calls[c].outcome.body)[i], "result", J(<<>>)) # JNull)
       => LET src == SourceItems("get_search_volume", calls[c].outcome.body)
              res == calls[c].value
          IN  /\ calls[c].error = NoError
              /\ Len(res) = Len(src)
              /\ \A i \in 1..Len(src) :
                    /\ res[i].keyword = src[i]["keyword"]
                    /\ res[i].search_volume = src[i]["search_volume"]
                    /\ res[i].location_code = Get(src[i], "location_code", JNull)
                    /\ res[i].language_code = Get(src[i], "language_code", JNull)
                    /\ res[i].use_clickstream = Get(src[i], "use_clickstream", TRUE)

\* an object without a keyword came before one with a null volume: one result
C8_Witness ==
    /\ Answered(1)
    /\ calls[1].op = "get_search_volume"
    /\ TasksOf(calls[1].outcome.body) = <<Task(SUCCESS, "Ok.", J(<<ItemNoKeyword, ItemNullVolume>>))>>
    /\ Len(calls[1].value) = 1
    /\ calls[1].value[1].keyword = "xyz"

\* C9: the monthly_searches of every result that get_search_volume and
\* get_search_volume_by_location return is the provider's sequence of the
\* keyword object it was built from: same elements, same order.
C9_MonthlySearchesAsReceived ==
    \A c \in Calls :
       (/\ Answered(c)
        /\ calls[c].op \in {"get_search_volume", "get_search_volume_by_location"}
        /\ calls[c].error = NoError)
       => LET src == SourceItems(calls[c].op, calls[c].outcome.body)
              res == calls[c].value
          IN  /\ Len(res) = Len(src)
              /\ \A i \in 1..Len(src) :
                    res[i].monthly_searches =
                       (IF "monthly_searches" \in DOMAIN src[i]
                        THEN src[i]["monthly_searches"] ELSE J(<<>>))

\* get_search_volume_by_location returned March 2024 before January 2024, as received
C9_Witness ==
    /\ Answered(1)
    /\ calls[1].op = "get_search_volume_by_location"
    /\ calls[1].error = NoError
    /\ Len(calls[1].value) = 2
    /\ calls[1].value[2].monthly_searches =
          J(<<Month(2024, 3, 900), Month(2024, 1, 1500), Month(2024, 2, 1500)>>)

\* C10: a call of get_search_volume whose keywords list is empty or has more
\* than 1000 items, or that supplies neither location_name nor location_code,
\* or neither language_name nor language_code, has failed with ValueError
\* as soon as it was made, without a slot of the gate and without a request.
C10_InvalidArgumentsRejected ==
    \A c \in Calls :
       (/\ calls[c].pc # "idle"
        /\ calls[c].op = "get_search_volume"
        /\ \/ Len(calls[c].args.keywords) = 0
           \/ Len(calls[c].args.keywords) > 1000
           \/ (calls[c].args.location_name = JNull /\ calls[c].args.location_code = JNull)
           \/ (calls[c].args.language_name = JNull /\ calls[c].args.language_code = JNull))
       => /\ calls[c].pc = "done"
          /\ IsInvalidArgument(calls[c].error)
          /\ calls[c].acquired = 0
          /\ calls[c].sent = 0
          /\ calls[c].value = <<>>

\* 1001 keywords with a location and a language, on an acquired client
C10_Witness ==
    /\ session # None
    /\ ~pools[session].closed
    /\ calls[1].pc = "done"
    /\ calls[1].op = "get_search_volume"
    /\ Len(calls[1].args.keywords) = 1001
    /\ calls[1].args.location_code = J(2840)
    /\ calls[1].args.language_code = J("en")
    /\ calls[1].error = Err("ValueError", "Maximum 1000 keywords allowed per request")
    /\ calls[1].sent = 0


\* C11: a call of get_global_search_volume whose keywords list is empty or
\* holds a keyword of fewer than 3 characters, at whatever position, has
\* failed with ValueError as soon as it was made: no slot of the gate was
\* taken and no request was sent.
C11_GlobalShortKeywordRejected ==
    \A c \in Calls :
       (/\ calls[c].pc # "idle"
        /\ calls[c].op = "get_global_search_volume"
        /\ \/ Len(calls[c].args.keywords) = 0
           \/ \E i \in 1..Len(calls[c].args.keywords) : Len(calls[c].args.keywords[i]) < 3)
       => /\ calls[c].pc = "done"
          /\ IsInvalidArgument(calls[c].error)
          /\ calls[c].acquired = 0
          /\ calls[c].sent = 0
          /\ calls[c].value = <<>>

\* the short keyword is the last of the list, on an acquired client
C11_Witness ==
    /\ session # None
    /\ ~pools[session].closed
    /\ calls[1].pc = "done"
    /\ calls[1].op = "get_global_search_volume"
    /\ calls[1].args.keywords = <<"seo tools", "ai">>
    /\ calls[1].error = Err("ValueError", "Keyword 'ai' must be at least 3 characters")
    /\ calls[1].sent = 0

\* C12: a call whose request met a transport failure - the connection could
\* not be made (refused, DNS), or the 30-second total timeout of the session
\* ran out - has failed with the "Request failed: <cause>" DataForSEOError,
\* never with the error of the transport itself.
C12_TransportFailureWrapped ==
    \A c \in Calls :
       (calls[c].pc = "done" /\ calls[c].outcome.kind \in {"client_error", "timeout"})
       => /\ IsRequestFailed(calls[c].error)
          /\ calls[c].value = <<>>

\* C13: the client never retries.  In every step, for every invocation: it
\* has sent at most one request; made with valid arguments on an acquired
\* client with a free slot it sends exactly one at once; the answer to that
\* request - a transport error, a provider error, failed tasks or a success -
\* ends the invocation with that one request sent; and an ended invocation
\* does nothing more until its caller takes the result.
C13_NoRetry ==
    [][\A c \in Calls :
          /\ calls'[c].sent <= 1
          /\ (/\ InvokedValid(c)
              /\ session # None
              /\ ~SessionClosed(session)
              /\ ~Locked(rate_limiter))
             => (calls'[c].pc = "inflight" /\ calls'[c].sent = 1)
          /\ (calls[c].pc = "inflight" /\ calls'[c] # calls[c])
             => /\ calls'[c].pc = "done"
                /\ calls'[c].sent = 1
                /\ calls'[c].outcome # NoOutcome
          /\ (calls[c].pc = "done" /\ calls'[c].pc # "idle")
             => calls'[c] = calls[c]]_vars

\* a call that met a transport error is over after its one request
C13_Witness ==
    /\ calls[1].pc = "done"
    /\ calls[1].op = "get_search_volume"
    /\ calls[1].outcome.kind = "client_error"
    /\ IsRequestFailed(calls[1].error)
    /\ calls[1].sent = 1

\* C14: a completed call of a list-returning operation whose response has a
\* successful envelope and in which every successful task has its "result"
\* absent, null or empty (no tasks and only failing tasks included) has
\* returned the empty list and raised nothing.
C14_EmptyListWhenNothingQualifies ==
    \A c \in Calls :
       (/\ Answered(c)
        /\ calls[c].op \in ListOps
        /\ \A i \in 1..Len(SucceededTasks(calls[c].outcome.body)) :
              Get(SucceededTasks(calls[c].outcome.body)[i], "result", JNull) \in {JNull, J(<<>>)})
       => /\ calls[c].error = NoError
          /\ calls[c].value = <<>>

\* an argument counts as supplied when it holds a usable value: a name or a
\* tag that is not empty, a code that is not 0
GivenStr(x) == x # JNull /\ x # J("")
GivenInt(x) == x # JNull /\ x # J(0)

\* C15: the payload built by a call of get_search_volume is a list of exactly
\* one task object.  The task carries the keywords and use_clickstream as
\* given, exactly one of location_name / location_code and exactly one of
\* language_name / language_code - the name when a name was supplied, else
\* the code - and the key "tag" exactly when a tag was supplied.
C15_PayloadOneOfEachPair ==
    \A c \in Calls :
       (calls[c].op = "get_search_volume" /\ calls[c].payload # JNull)
       => LET a == calls[c].args
              task == Val(calls[c].payload)[1]
          IN  /\ Len(Val(calls[c].payload)) = 1
              /\ DOMAIN task \subseteq {"keywords", "use_clickstream", "location_name",
                                        "location_code", "language_name", "language_code", "tag"}
              /\ task["keywords"] = a.keywords
              /\ task["use_clickstream"] = a.use_clickstream
              /\ Cardinality(DOMAIN task \cap {"location_name", "location_code"}) = 1
              /\ Cardinality(DOMAIN task \cap {"language_name", "language_code"}) = 1
              /\ IF GivenStr(a.location_name)
                 THEN "location_name" \in DOMAIN task /\ task["location_name"] = Val(a.location_name)
                 ELSE "location_code" \in DOMAIN task /\ task["location_code"] = Val(a.location_code)
              /\ IF GivenStr(a.language_name)
                 THEN "language_name" \in DOMAIN task /\ task["language_name"] = Val(a.language_name)
                 ELSE "language_code" \in DOMAIN task /\ task["language_code"] = Val(a.language_code)
              /\ "tag" \in DOMAIN task <=> GivenStr(a.tag)
              /\ "tag" \in DOMAIN task => task["tag"] = Val(a.tag)

\* name and code of both pairs supplied, and a tag: the names are on the wire
C15_Witness ==
    /\ calls[1].pc = "inflight"
    /\ calls[1].op = "get_search_volume"
    /\ calls[1].args.location_name = J("United States")
    /\ calls[1].args.location_code = J(2840)
    /\ calls[1].args.language_name = J("English")
    /\ calls[1].args.language_code = J("en")
    /\ calls[1].args.tag = J("batch-1")
    /\ calls[1].payload =
          J(<< [keywords |-> <<"seo tools">>, use_clickstream |-> TRUE,
                location_name |-> "United States", language_name |-> "English",
                tag |-> "batch-1"] >>)

\* the objects found directly in the "result" lists of the successful tasks
\* of a body, and the objects nested in the "items" of those objects
DirectObjects(body) == Concat(Map(SucceededTasks(body), ResultOf))
NestedObjects(body) == Concat(Map(DirectObjects(body), ItemsOf))
KeywordAndVolume(x) == <<x["keyword"], x["search_volume"]>>

\* C16: the two parsing shapes stay apart.  A call of get_global_search_volume
\* or get_search_volume_by_location that returned has built its results, in
\* order, from the objects nested in "items" and from nothing else: a keyword
\* object lying directly in "result" gives no result.  A call of
\* get_search_volume that returned has built them from the qualifying objects
\* lying directly in "result" and from nothing nested in "items".
C16_ParsingShapesDistinct ==
    \A c \in Calls :
       (Answered(c) /\ calls[c].error = NoError /\ calls[c].op \in ListOps)
       => LET body == calls[c].outcome.body
          IN  IF calls[c].op = "get_search_volume"
              THEN Map(calls[c].value, KeywordAndVolume)
                      = Map(SelectSeq(DirectObjects(body), Qualifies), KeywordAndVolume)
              ELSE Map(calls[c].value, KeywordAndVolume)
                      = Map(NestedObjects(body), KeywordAndVolume)

\* get_global_search_volume answered with two keyword objects directly in
\* "result": nothing is built from them
C16_Witness ==
    /\ calls[1].pc = "done"
    /\ calls[1].op = "get_global_search_volume"
    /\ calls[1].outcome = Outcome("json", Envelope(SUCCESS, "Ok.",
                                     <<Task(SUCCESS, "Ok.", J(<<ItemFull, ItemZero>>))>>))
    /\ calls[1].error = NoError
    /\ calls[1].value = <<>>

\* C17: null stays apart from zero.  A call of get_search_volume that
\* returned has one result for every object of "result" that carries both
\* keys, an object whose search_volume is null included, and the result's
\* search_volume is null exactly when the object's is null and 0 exactly
\* when the object's is 0.
C17_NullVolumeKept ==
    \A c \in Calls :
       (Answered(c) /\ calls[c].error = NoError /\ calls[c].op = "get_search_volume")
       => LET src == SelectSeq(DirectObjects(calls[c].outcome.body),
                               LAMBDA x : {"keyword", "search_volume"} \subseteq DOMAIN x)
              res == calls[c].value
          IN  /\ Len(res) = Len(src)
              /\ \A i \in 1..Len(src) :
                    /\ res[i].keyword = src[i]["keyword"]
                    /\ (res[i].search_volume = JNull) <=> (src[i]["search_volume"] = JNull)
                    /\ (res[i].search_volume = J(0)) <=> (src[i]["search_volume"] = J(0))

\* one keyword with a null volume and one with volume 0 in the same response
C17_Witness ==
    /\ calls[1].pc = "done"
    /\ calls[1].op = "get_search_volume"
    /\ calls[1].outcome = Outcome("json", Envelope(SUCCESS, "Ok.",
                                     <<Task(SUCCESS, "Ok.", J(<<ItemNullVolume, ItemZero>>))>>))
    /\ calls[1].error = NoError
    /\ Len(calls[1].value) = 2
    /\ calls[1].value[1].keyword = "xyz"
    /\ calls[1].value[1].search_volume = JNull
    /\ calls[1].value[2].keyword = "ai"
    /\ calls[1].value[2].search_volume = J(0)

\* the step is an acquisition of a client that was acquired before
LaterAcquisition == Len(pools) >= 1 /\ Len(pools') = Len(pools) + 1
NewPoolOpened ==
    /\ session' = Len(pools')
    /\ session' # session
    /\ pools'[session'] = [closed |-> FALSE, closes |-> 0]

\* C18: a later acquisition of the same client starts with a newly opened
\* pool and with a gate whose rate_limit slots are all free and on which
\* nobody waits, whatever calls were made or are still in flight.
C18_FreshPoolAndGate ==
    [][LaterAcquisition
          => /\ NewPoolOpened
             /\ rate_limiter'.value = rate_limit
             /\ rate_limiter'.waiters = <<>>]_vars

\* C18, as the code has it: a later acquisition starts with a newly opened
\* pool, but the gate belongs to the client object and is left as it is: the
\* calls of the earlier acquisition that still hold a slot keep it and the
\* waiters stay queued, so all rate_limit slots are free only when no call
\* is in progress.
C18_FreshPoolSameGate ==
    [][LaterAcquisition
          => /\ NewPoolOpened
             /\ rate_limiter' = rate_limiter
             /\ calls' = calls
             /\ rate_limiter'.value = rate_limit - Cardinality(SlotHolders)
             /\ Quiescent => rate_limiter'.value = rate_limit]_vars

\* the second acquisition is open while a request sent through the pool of
\* the first is still in flight and holds its slot
C18_Witness ==
    /\ Len(pools) = 2
    /\ session = 2
    /\ pools[1].closed
    /\ ~pools[2].closed
    /\ depth = 1
    /\ \E c \in Calls : calls[c].pc = "inflight" /\ calls[c].pool = 1
    /\ rate_limiter.value < rate_limit

C21_LocationsRawResponse ==
    \A c \in Calls :
       (calls[c].pc # "idle" /\ calls[c].op = "get_locations_and_languages")
       => /\ calls[c].method = "GET"
          /\ calls[c].payload = JNull
          /\ calls[c].sent <= 1
          /\ calls[c].pc = "inflight"
             => /\ calls[c].sent = 1
                /\ calls[c].acquired = 1
                /\ rate_limiter.value < rate_limit
          /\ Answered(c)
             => /\ calls[c].sent = 1
                /\ calls[c].error = NoError
                /\ calls[c].value = calls[c].outcome.body

\* the locations were asked for and the provider's answer, a dict with
\* status_code, status_message and tasks, came back as the value
C21_Witness ==
    /\ calls[1].pc = "done"
    /\ calls[1].op = "get_locations_and_languages"
    /\ calls[1].method = "GET"
    /\ calls[1].sent = 1
    /\ calls[1].error = NoError
    /\ calls[1].value = Envelope(SUCCESS, "Ok.", <<Task(SUCCESS, "Ok.", J(<<ItemFull>>))>>)

ArgumentsInvalid(op, a) ==
    CASE op = "get_search_volume" ->
            \/ Len(a.keywords) = 0
            \/ Len(a.keywords) > 1000
            \/ ~(GivenStr(a.location_name) \/ GivenInt(a.location_code))
            \/ ~(GivenStr(a.language_name) \/ GivenStr(a.language_code))
      [] op = "get_global_search_volume" ->
            \/ Len(a.keywords) = 0
            \/ Len(a.keywords) > 1000
            \/ \E i \in 1..Len(a.keywords) : Len(a.keywords[i]) < 3
      [] op = "get_search_volume_by_location" ->
            \/ Len(a.keywords) = 0
            \/ ~(GivenStr(a.location_name) \/ GivenInt(a.location_code))
      [] OTHER -> FALSE

\* the step leaves the gate and the session as they were, and call c has
\* taken no slot and sent nothing
RejectedWithoutEffect(c) ==
    /\ calls'[c].pc = "done"
    /\ calls'[c].acquired = 0
    /\ calls'[c].sent = 0
    /\ calls'[c].value = <<>>
    /\ rate_limiter' = rate_limiter
    /\ session' = session
    /\ pools' = pools

\* C27: validation comes before the lifecycle check and before the gate.  A
\* query method called with invalid arguments fails with ValueError whether
\* the client was never acquired, is acquired or was released, and a call
\* that validation or the not-initialized check rejects leaves the free
\* slots of the gate and the session unchanged.
C27_ValidationBeforeLifecycle ==
    [][\A c \in Calls :
          (calls[c].pc = "idle" /\ calls'[c].pc # "idle")
          => /\ ArgumentsInvalid(calls'[c].op, calls'[c].args)
                => (IsInvalidArgument(calls'[c].error) /\ RejectedWithoutEffect(c))
             /\ IsInvalidArgument(calls'[c].error) => RejectedWithoutEffect(c)
             /\ IsClientNotInitialized(calls'[c].error) => RejectedWithoutEffect(c)]_vars

\* a released client asked for the global volume of a keyword of two
\* characters
C27_Witness ==
    /\ Released
    /\ calls[1].pc = "done"
    /\ calls[1].op = "get_global_search_volume"
    /\ calls[1].args.keywords = <<"ai", "seo tools">>
    /\ IsInvalidArgument(calls[1].error)
    /\ rate_limiter.value = rate_limit

\* call c leaves "idle" in this step as a call of get_search_volume with 1
\* to 1000 keywords
InvokedLocale(c) ==
    /\ calls[c].pc = "idle"
    /\ calls'[c].pc # "idle"
    /\ calls'[c].op = "get_search_volume"
    /\ Len(calls'[c].args.keywords) \in 1..1000

\* validation passed and, on an acquired client with a free slot, the one
\* POST is on the wire
AcceptedAndPosted(c) ==
    /\ ~IsInvalidArgument(calls'[c].error)
    /\ calls'[c].method = "POST"
    /\ Len(Val(calls'[c].payload)) = 1
    /\ (session # None /\ ~SessionClosed(session) /\ ~Locked(rate_limiter))
       => (calls'[c].pc = "inflight" /\ calls'[c].sent = 1)

\* C28: whenever get_search_volume is called with 1 to 1000 keywords, a
\* non-null location_name or location_code (a code 0 and an empty name
\* included) and a non-null language_name or language_code, validation
\* passes and exactly one POST is sent.
C28_AcceptsEveryNonNull ==
    [][\A c \in Calls :
          (/\ InvokedLocale(c)
           /\ (calls'[c].args.location_name # JNull \/ calls'[c].args.location_code # JNull)
           /\ (calls'[c].args.language_name # JNull \/ calls'[c].args.language_code # JNull))
          => AcceptedAndPosted(c)]_vars

\* C28, as the code has it: the call is accepted whenever it has 1 to 1000
\* keywords, a non-empty location_name or a non-zero location_code, and a
\* non-empty language_name or language_code; a location given only as an
\* empty name, as code 0, or as both, is rejected with ValueError like a
\* missing one.
C28_AcceptsEveryUsable ==
    [][\A c \in Calls :
          InvokedLocale(c)
          => IF /\ (GivenStr(calls'[c].args.location_name) \/ GivenInt(calls'[c].args.location_code))
                /\ (GivenStr(calls'[c].args.language_name) \/ GivenStr(calls'[c].args.language_code))
             THEN AcceptedAndPosted(c)
             ELSE /\ calls'[c].error =
                        IF GivenStr(calls'[c].args.location_name) \/ GivenInt(calls'[c].args.location_code)
                        THEN Err("ValueError", "Either language_name or language_code is required")
                        ELSE Err("ValueError", "Either location_name or location_code is required")
                  /\ calls'[c].sent = 0]_vars

\* 1000 keywords, an empty location name beside a usable code, a language
\* code: accepted, and the POST carries the code
C28_Witness ==
    /\ calls[1].pc = "inflight"
    /\ calls[1].op = "get_search_volume"
    /\ Len(calls[1].args.keywords) = 1000
    /\ calls[1].args.location_name = J("")
    /\ calls[1].args.location_code = J(2840)
    /\ calls[1].args.language_name = JNull
    /\ calls[1].args.language_code = J("en")
    /\ calls[1].sent = 1
    /\ "location_code" \in DOMAIN Val(calls[1].payload)[1]
    /\ "location_name" \notin DOMAIN Val(calls[1].payload)[1]

\* C29: a call of get_global_search_volume or get_search_volume_by_location
\* whose response holds, under the "items" of a successful task, an item
\* without "keyword" or without "search_volume" has failed with an error
\* that is none of the client's own (the KeyError of the missing key, unless
\* a null list ended the parse before), and has returned none of the
\* results, those of earlier items and tasks included.
C29_IncompleteItemFailsCall ==
    \A c \in Calls :
       (/\ Answered(c)
        /\ calls[c].op \in {"get_global_search_volume", "get_search_volume_by_location"}
        /\ \E i \in 1..Len(NestedObjects(calls[c].outcome.body)) :
              ~Qualifies(NestedObjects(calls[c].outcome.body)[i]))
       => /\ calls[c].error.cls \in {"KeyError", "TypeError"}
          /\ calls[c].error.cls = "TypeError"
             => \E i \in 1..Len(TasksOf(calls[c].outcome.body)) :
                   Get(TasksOf(calls[c].outcome.body)[i], "result", J(<<>>)) = JNull
          /\ calls[c].value = <<>>

\* the item without a keyword comes second: the result built from the first
\* item is lost with the call
C29_Witness ==
    /\ calls[1].pc = "done"
    /\ calls[1].op = "get_global_search_volume"
    /\ calls[1].outcome = Outcome("json", Envelope(SUCCESS, "Ok.",
                             <<Task(SUCCESS, "Ok.", J(<<Container(J(<<ItemFull, ItemNoKeyword>>))>>))>>))
    /\ calls[1].error = KeyError("keyword")
    /\ calls[1].value = <<>>

\* the acquisitions in progress that send their requests through pool p:
\* all of them use the one session the client holds
UsersOf(p) == IF p = session THEN depth ELSE 0

\* C26: no pool is used by two acquisitions at once, and when every
\* acquisition has been matched by a release no pool that the client opened
\* is still open, also when a second acquisition began before the first was
\* released.
C26_PoolsClosedAndUnshared ==
    /\ \A p \in 1..Len(pools) : UsersOf(p) <= 1
    /\ depth = 0 => \A p \in 1..Len(pools) : pools[p].closed

\* C25: no call waits forever at the gate.  Provided every request that was
\* sent is answered, a call that waits for a slot is in the end admitted,
\* and in the end has returned or raised, however many callers there are.
C25_WaitingCallsProceed ==
    \A c \in Calls :
       /\ (calls[c].pc = "waiting") ~> (calls[c].pc = "admitted")
       /\ (calls[c].pc = "waiting") ~> (calls[c].pc = "done")

\* a call waits while every slot is taken by a request in flight
C25_Witness ==
    /\ \E c \in Calls : calls[c].pc = "waiting"
    /\ Cardinality(InFlight) = rate_limit
    /\ rate_limiter.value = 0

(***************************************************************************)
(* The batch scripts.                                                      *)
(***************************************************************************)
\* the events of one kind in the log of the script, in order
LogOf(ev) == SelectSeq(script.log, LAMBDA x : x.ev = ev)

\* C23: in every batch script, the request of batch k+1 comes only after the
\* request of batch k has completed and after the 5-second delay that
\* follows it, whether batch k succeeded or failed, and no delay follows the
\* last batch.
C23_DelayBetweenBatches ==
    \A j \in 1..Len(script.log) :
       LET x == script.log[j]
       IN  /\ (x.ev = "request" /\ x.batch = 1) => j = 1
           /\ (x.ev = "request" /\ x.batch > 1) =>
                 /\ j >= 3
                 /\ script.log[j - 1] = Event("sleep", x.batch - 1, TRUE, INTER_BATCH_DELAY)
                 /\ script.log[j - 2].ev = "completed"
                 /\ script.log[j - 2].batch = x.batch - 1
           /\ x.ev = "sleep" => x.batch < TotalBatches(script.kind, script.len)

\* C24: in every batch script, a batch whose client call fails does not stop
\* the run: no error leaves the script, and when the script returns every
\* batch of the input was requested exactly once, in input order, the
\* client's scope was exited and the results hold the batches that succeeded.
C24_FailedBatchDoesNotStopRun ==
    /\ script.pc \notin {"raising", "crashed"}
    /\ script.pc = "returned" =>
          /\ LogOf("request") =
                [k \in 1..TotalBatches(script.kind, script.len) |-> Event("request", k, TRUE, 0)]
          /\ Released
          /\ \A j \in 1..Len(script.log) :
                (script.log[j].ev = "completed" /\ script.log[j].ok) =>
                    \E r \in 1..Len(script.results) :
                        script.results[r] = [batch |-> script.log[j].batch, status |-> "data"]

(***************************************************************************)
(* The Firestore update.                                                   *)
(***************************************************************************)
RECURSIVE SumSeq(_)
SumSeq(s) == IF s = <<>> THEN 0 ELSE Head(s) + SumSeq(Tail(s))

\* C30: in update_firestore_with_volumes no commit holds more than 500
\* updates, and when the function returns normally every queued update has
\* been committed exactly once (none pending, none twice) and
\* updated_count + skipped_count is the number of input keywords.
C30_CommitsBoundedAndComplete ==
    /\ \A j \in 1..Len(store.commits) : store.commits[j] <= 500
    /\ store.pc = "returned" =>
          /\ store.pending = 0
          /\ SumSeq(store.commits) = store.queued
          /\ store.updated_count + store.skipped_count = store.seen

\* a map of 501 keywords, one of them without a document, was written in
\* one full commit of 500 updates
C30_Witness ==
    /\ store.pc = "returned"
    /\ store.seen = 501
    /\ store.commits = <<500>>
    /\ store.skipped_count = 1
====
